---- MODULE Spec2Model ----
(***************************************************************************)
(* Model of the RAG sample project: the asynchronous ingestion pipeline    *)
(* (create_document -> publish_document -> RabbitMQ -> worker callback ->  *)
(* get_embedding -> save_embedding) and the query path (query_documents -> *)
(* get_embedding -> search_similar_documents -> generate_rag_response ->   *)
(* get_documents_by_ids).                                                  *)
(*                                                                         *)
(* Spec         : the ingestion pipeline with competing workers.           *)
(* SubmitSpec   : create_document requests on their own.                   *)
(* QuerySpec    : the query path over every (bounded) store content.       *)
(* GenerateSpec : generate_rag_response on every (bounded) context list.   *)
(* EditSpec     : the pipeline while document rows are rewritten.          *)
(* LiveSpec     : the pipeline under fair scheduling.                      *)
(***************************************************************************)
EXTENDS Integers, Sequences, FiniteSets, TLC

VARIABLES
    documents,   \* record store, table documents: row i has id i
    embeddings,  \* vector store, table embeddings: row i has id i
    queue,       \* broker: messages ready for delivery (visible), head first
    inbox,       \* per worker: messages pushed by the broker, callback not yet started
    unacked,     \* per worker: messages outstanding on the worker's channel
    conn,        \* per worker: the channel to the broker is open
    pc,          \* per worker: position in start_worker / callback
    cur,         \* per worker: the delivery the callback is (was last) handling
    args,        \* per worker: (document_id, content, metadata) parsed from the body
    vec,         \* per worker: embedding_vector returned by get_embedding
    hist,        \* per worker: what the callback did for the delivery in cur
    acked,       \* message ids the broker has seen acknowledged
    dropped,     \* message ids the broker has discarded (nack, requeue=False)
    sent,        \* every body handed to the broker, by message id
    req,         \* the create_document request in progress
    responses,   \* outcome of every finished create_document request
    crashes,     \* number of connection losses and interrupts so far
    qpc,         \* query_documents: position
    qreq,        \* query_documents: the Query (query text embedding, top_k)
    similar_docs,\* query_documents: result of search_similar_documents
    qcalls,      \* query_documents: calls made for the current query
    answer,      \* query_documents: the string generate_rag_response returned
    qresp,       \* query_documents: the response returned to the caller
    gen          \* the last direct call of generate_rag_response and its result

pipeVars == <<documents, embeddings, queue, inbox, unacked, conn, pc, cur, args,
              vec, hist, acked, dropped, sent, req, responses, crashes>>
queryVars == <<qpc, qreq, similar_docs, qcalls, answer, qresp, gen>>
vars == <<pipeVars, queryVars>>

(***************************************************************************)
(* Bounds of the model                                                     *)
(***************************************************************************)
MaxDocs == 1      \* create_document requests while the pipeline runs
MaxSubmissions == 2 \* create_document requests of SubmitSpec
MaxRaw == 1       \* bodies put on the queue by a foreign publisher
MaxCrashes == 1   \* connection losses / interrupts
MaxQDocs == 2     \* rows of table documents when a query runs
MaxRows == 2      \* rows of table embeddings when a query runs
MaxTopK == 2      \* largest top_k a query asks for
MaxContexts == 3  \* longest context list handed to generate_rag_response

\* worker processes competing on the queue
Workers == {"w1", "w2"}

\* Python's None
NoneVal == "None"
\* document contents a client may submit (DocumentBase.content: str)
Contents == {"", "The sky is blue."}
\* DocumentBase.meta_info: Optional[Dict[str, Any]] = {}
MetaInfos == {NoneVal, "{k: v}"}

(***************************************************************************)
(* JSON bodies.  A body is what json.dumps produced (kind "object", with   *)
(* the fields of the dictionary) or bytes a foreign publisher wrote.       *)
(***************************************************************************)
json_dumps(message) == [kind |-> "object", fields |-> message]

\* bodies that do not have the wire shape {document_id, content, metadata}
RawBodies ==
    { [kind |-> "not_json", fields |-> [x |-> 0]],
      [kind |-> "not_utf8", fields |-> [x |-> 0]],
      [kind |-> "object", fields |-> [content |-> "The sky is blue."]],
      [kind |-> "object", fields |-> [document_id |-> 1]] }

\* json.loads(body): the exception it raises, "none" when it returns
json_loads_exc(body) ==
    CASE body.kind = "not_json" -> "JSONDecodeError"
      [] body.kind = "not_utf8" -> "UnicodeDecodeError"
      [] OTHER -> "none"

\* lines 56-59 of callback: the exception raised while parsing the message
parse_exc(body) ==
    IF json_loads_exc(body) # "none" THEN json_loads_exc(body)
    ELSE IF "document_id" \notin DOMAIN body.fields THEN "KeyError"
    ELSE IF "content" \notin DOMAIN body.fields THEN "KeyError"
    ELSE "none"

\* a callback that reads the content from the document row
parse_args_rereads_row(body) ==
    [document_id |-> body.fields.document_id,
     content |-> documents[body.fields.document_id].content,
     metadata |-> IF "metadata" \in DOMAIN body.fields
                  THEN body.fields.metadata ELSE "{}"]

\* message.get("metadata", {})
parse_args(body) ==
    [document_id |-> body.fields.document_id,
     content |-> body.fields.content,
     metadata |-> IF "metadata" \in DOMAIN body.fields
                  THEN body.fields.metadata ELSE "{}"]

\* a callback that acknowledges in its except clause
callback_handler_acks(exc) ==
    IF exc = "JSONDecodeError" THEN "nack_drop" ELSE "ack"

\* the except clauses of callback: which handler an exception reaches
callback_handler(exc) ==
    IF exc = "JSONDecodeError" THEN "nack_drop" ELSE "nack_requeue"

\* channel.basic_qos(prefetch_count=1)
prefetch_count == 1

\* a consumer for which basic_qos was never called
may_push_unlimited(n) == TRUE

\* basic_qos with manual acknowledgement: the broker pushes a message to a
\* consumer that holds n unacknowledged ones only while n < prefetch_count
\* (a prefetch_count of 0 means no limit)
may_push(n) == prefetch_count = 0 \/ n < prefetch_count

\* a callback that acknowledges as soon as the embedding is returned
callback_next_skips_save(stage) ==
    CASE stage = "parse" -> "embed"
      [] stage = "embed" -> "ack"
      [] stage = "save" -> "ack"
      [] stage = "ack" -> "return"

\* the statement callback reaches when a stage returned without raising:
\* lines 56-59, then process_document (get_embedding, line 30, and
\* save_embedding, line 39), then basic_ack (line 67), then the return
callback_next(stage) ==
    CASE stage = "parse" -> "embed"
      [] stage = "embed" -> "save"
      [] stage = "save" -> "ack"
      [] stage = "ack" -> "return"

\* an upsert: the row of the document is replaced when there is one
upsert_embedding(rows, document_id, embedding_vector) ==
    IF \E i \in 1..Len(rows) : rows[i].document_id = document_id
    THEN [i \in 1..Len(rows) |->
            IF rows[i].document_id = document_id
            THEN [document_id |-> document_id, embedding |-> embedding_vector]
            ELSE rows[i]]
    ELSE Append(rows, [document_id |-> document_id, embedding |-> embedding_vector])

\* save_embedding, lines 76-81: INSERT INTO embeddings (document_id, embedding)
insert_embedding(rows, document_id, embedding_vector) ==
    Append(rows, [document_id |-> document_id, embedding |-> embedding_vector])

NoMsg == [mid |-> 0, body |-> [kind |-> "none", fields |-> [x |-> 0]]]
NoArgs == [document_id |-> 0, content |-> "", metadata |-> "{}"]
NoVec == <<>>
NoHist == [embed_calls |-> 0, save_calls |-> 0, row |-> 0, acks |-> 0,
           nacks_requeue |-> 0, nacks_drop |-> 0, exc |-> "none", stage |-> "none"]
NoCalls == [embed |-> 0, search |-> 0, generate |-> 0, resolve |-> 0,
            embedded |-> "no", searched |-> "no", resolved |-> "no"]
NoResp == [status |-> 0, answer |-> <<>>, sources |-> <<>>]
NoGen == [context |-> <<>>, outcome |-> "none", raised |-> FALSE, value |-> <<>>]
NoReq == [pc |-> "idle", id |-> 0, content |-> "", meta_info |-> NoneVal]

\* the 2-dimensional unit vectors standing for embedding vectors
Vectors == { <<1, 0>>, <<0, 1>>, <<-1, 0>> }

\* the vector the embedding model returns for a text
embedding_of(text) == IF text = "The sky is blue." THEN <<1, 0>> ELSE <<0, 1>>

\* outcomes of the call to the embeddings endpoint made by get_embedding
EmbeddingFaults == {"no_api_key", "status_not_200", "timeout", "unexpected_format", "invalid_json"}

\* get_embedding: the exception class raised for a fault
get_embedding_exc(fault) ==
    CASE fault = "invalid_json" -> "JSONDecodeError"
      [] fault = "timeout" -> "TimeoutException"
      [] OTHER -> "Exception"

\* the message a body becomes on the broker
Msg(mid, body) == [mid |-> mid, body |-> body]

\* broker: messages returned to the queue are placed back at its head (the
\* redelivered flag the broker sets is never read by callback)
Requeue(msgs, q) == msgs \o q

Remove(msgs, m) == SelectSeq(msgs, LAMBDA x : x.mid # m.mid)

(***************************************************************************)
(* Initial state                                                           *)
(***************************************************************************)
\* no request, no message, every worker waiting in start_consuming
PipeIdle ==
    /\ queue = <<>>
    /\ inbox = [w \in Workers |-> <<>>]
    /\ unacked = [w \in Workers |-> <<>>]
    /\ conn = [w \in Workers |-> TRUE]
    /\ pc = [w \in Workers |-> "consuming"]
    /\ cur = [w \in Workers |-> NoMsg]
    /\ args = [w \in Workers |-> NoArgs]
    /\ vec = [w \in Workers |-> NoVec]
    /\ hist = [w \in Workers |-> NoHist]
    /\ acked = {}
    /\ dropped = {}
    /\ sent = <<>>
    /\ req = NoReq
    /\ responses = <<>>
    /\ crashes = 0

QueryIdle ==
    /\ qpc = "idle"
    /\ qreq = [embedding |-> NoVec, top_k |-> 0]
    /\ similar_docs = <<>>
    /\ qcalls = NoCalls
    /\ answer = <<>>
    /\ qresp = NoResp
    /\ gen = NoGen

Init ==
    /\ documents = <<>>
    /\ embeddings = <<>>
    /\ PipeIdle
    /\ QueryIdle

(***************************************************************************)
(* Document submission: endpoints.create_document ->                       *)
(* document_service.create_document -> queue_service.publish_document      *)
(***************************************************************************)
\* a publish_document that leaves the metadata out of the message
publish_message_no_metadata(document_id, content, metadata) ==
    [document_id |-> document_id, content |-> content, metadata |-> "{}"]

\* a publish_document handed the id of a row that is not committed yet
publish_message_uncommitted_id(document_id, content, metadata) ==
    [document_id |-> document_id + 1,
     content |-> content,
     metadata |-> IF metadata = NoneVal THEN "{}" ELSE metadata]

\* the message publish_document builds (metadata None becomes {})
publish_message(document_id, content, metadata) ==
    [document_id |-> document_id,
     content |-> content,
     metadata |-> IF metadata = NoneVal THEN "{}" ELSE metadata]

\* db.add / db.commit / db.refresh: the row is committed, or the commit fails
\* and the endpoint answers 500
CreateCommit ==
    /\ req.pc = "idle"
    /\ \E content \in Contents, meta_info \in MetaInfos, ok \in BOOLEAN :
        IF ok
        THEN /\ documents' = Append(documents, [content |-> content, meta_info |-> meta_info])
             /\ req' = [pc |-> "publish", id |-> Len(documents) + 1,
                        content |-> content, meta_info |-> meta_info]
             /\ UNCHANGED responses
        ELSE /\ responses' = Append(responses,
                    [status |-> 500, stage |-> "commit", id |-> 0,
                     content |-> "", meta_info |-> NoneVal, mid |-> 0])
             /\ UNCHANGED <<documents, req>>
    /\ UNCHANGED <<embeddings, queue, inbox, unacked, conn, pc, cur, args, vec, hist,
                   acked, dropped, sent, crashes, queryVars>>

\* POST /documents/ while the pipeline runs
SubmitPipeline == Len(responses) < MaxDocs /\ CreateCommit

\* POST /documents/ with no worker running
SubmitAlone == Len(responses) < MaxSubmissions /\ CreateCommit

\* publish_document(db_document.id, db_document.content, db_document.meta_info),
\* then return db_document; a failure to reach the broker propagates
CreatePublish ==
    /\ req.pc = "publish"
    /\ \E ok \in BOOLEAN :
        LET row == documents[req.id]
            body == json_dumps(publish_message(req.id, row.content, row.meta_info))
            mid == Len(sent) + 1
        IN IF ok
           THEN /\ queue' = Append(queue, Msg(mid, body))
                /\ sent' = Append(sent, [body |-> body, by |-> "publish_document"])
                /\ responses' = Append(responses,
                       [status |-> 200, stage |-> "done", id |-> req.id,
                        content |-> req.content, meta_info |-> req.meta_info, mid |-> mid])
           ELSE /\ responses' = Append(responses,
                       [status |-> 500, stage |-> "publish", id |-> req.id,
                        content |-> req.content, meta_info |-> req.meta_info, mid |-> 0])
                /\ UNCHANGED <<queue, sent>>
    /\ req' = NoReq
    /\ UNCHANGED <<documents, embeddings, inbox, unacked, conn, pc, cur, args, vec, hist,
                   acked, dropped, crashes, queryVars>>

\* a publisher other than publish_document writes a body to the durable queue
PublishRaw ==
    /\ Cardinality({i \in 1..Len(sent) : sent[i].by = "foreign"}) < MaxRaw
    /\ \E body \in RawBodies :
        /\ queue' = Append(queue, Msg(Len(sent) + 1, body))
        /\ sent' = Append(sent, [body |-> body, by |-> "foreign"])
    /\ UNCHANGED <<documents, embeddings, inbox, unacked, conn, pc, cur, args, vec, hist,
                   acked, dropped, req, responses, crashes, queryVars>>

\* document_service.get_document
get_document(document_id) ==
    IF document_id \in 1..Len(documents) THEN documents[document_id] ELSE NoneVal

(***************************************************************************)
(* Broker and worker: worker.start_worker, worker.callback,                *)
(* worker.process_document, embedding_service.get_embedding/save_embedding *)
(***************************************************************************)
\* basic_consume with prefetch_count: the broker pushes the head of the queue
\* to a consumer that has fewer than prefetch_count unacknowledged messages
Deliver(w) ==
    /\ conn[w]
    /\ queue # <<>>
    /\ may_push(Len(unacked[w]))
    /\ inbox' = [inbox EXCEPT ![w] = Append(@, Head(queue))]
    /\ unacked' = [unacked EXCEPT ![w] = Append(@, Head(queue))]
    /\ queue' = Tail(queue)
    /\ UNCHANGED <<documents, embeddings, conn, pc, cur, args, vec, hist, acked, dropped,
                   sent, req, responses, crashes, queryVars>>

\* start_consuming invokes callback for the next delivered message
Dispatch(w) ==
    /\ pc[w] = "consuming"
    /\ inbox[w] # <<>>
    /\ cur' = [cur EXCEPT ![w] = Head(inbox[w])]
    /\ inbox' = [inbox EXCEPT ![w] = Tail(@)]
    /\ pc' = [pc EXCEPT ![w] = "parse"]
    /\ UNCHANGED <<documents, embeddings, queue, unacked, conn, args, vec, hist, acked,
                   dropped, sent, req, responses, crashes, queryVars>>

\* callback, lines 56-59: json.loads and the field look-ups
Parse(w) ==
    /\ pc[w] = "parse"
    /\ LET exc == parse_exc(cur[w].body)
       IN IF exc = "none"
          THEN /\ args' = [args EXCEPT ![w] = parse_args(cur[w].body)]
               /\ pc' = [pc EXCEPT ![w] = callback_next("parse")]
               /\ UNCHANGED hist
          ELSE /\ pc' = [pc EXCEPT ![w] = callback_handler(exc)]
               /\ hist' = [hist EXCEPT ![w].exc = exc, ![w].stage = "parse"]
               /\ UNCHANGED args
    /\ UNCHANGED <<documents, embeddings, queue, inbox, unacked, conn, cur, vec, acked,
                   dropped, sent, req, responses, crashes, queryVars>>

\* process_document, line 30: await get_embedding(content); every exception
\* is re-raised by get_embedding and by process_document and reaches callback
GetEmbedding(w) ==
    /\ pc[w] = "embed"
    /\ \/ /\ vec' = [vec EXCEPT ![w] = embedding_of(args[w].content)]
            /\ pc' = [pc EXCEPT ![w] = callback_next("embed")]
            /\ hist' = [hist EXCEPT ![w].embed_calls = @ + 1]
       \/ \E fault \in EmbeddingFaults :
            /\ pc' = [pc EXCEPT ![w] = callback_handler(get_embedding_exc(fault))]
            /\ hist' = [hist EXCEPT ![w].embed_calls = @ + 1,
                                    ![w].exc = get_embedding_exc(fault),
                                    ![w].stage = "get_embedding"]
            /\ UNCHANGED vec
    /\ UNCHANGED <<documents, embeddings, queue, inbox, unacked, conn, cur, args, acked,
                   dropped, sent, req, responses, crashes, queryVars>>

\* save_embedding: INSERT and commit, or rollback and re-raise; the insert of a
\* row whose document does not exist violates the foreign key
SaveEmbedding(w) ==
    /\ pc[w] = "save"
    /\ \/ /\ args[w].document_id \in 1..Len(documents)
          /\ embeddings' = insert_embedding(embeddings, args[w].document_id, vec[w])
          /\ pc' = [pc EXCEPT ![w] = callback_next("save")]
          /\ hist' = [hist EXCEPT ![w].save_calls = @ + 1, ![w].row = Len(embeddings) + 1]
       \/ /\ pc' = [pc EXCEPT ![w] = callback_handler("DatabaseError")]
          /\ hist' = [hist EXCEPT ![w].exc = "DatabaseError", ![w].stage = "save_embedding"]
          /\ UNCHANGED embeddings
    /\ UNCHANGED <<documents, queue, inbox, unacked, conn, cur, args, vec, acked, dropped,
                   sent, req, responses, crashes, queryVars>>

\* callback, line 67: ch.basic_ack; on a closed channel it raises and the
\* except Exception clause runs
Ack(w) ==
    /\ pc[w] = "ack"
    /\ IF conn[w]
       THEN /\ unacked' = [unacked EXCEPT ![w] = Remove(@, cur[w])]
            /\ acked' = acked \cup {cur[w].mid}
            /\ hist' = [hist EXCEPT ![w].acks = @ + 1]
            /\ pc' = [pc EXCEPT ![w] = callback_next("ack")]
       ELSE /\ pc' = [pc EXCEPT ![w] = callback_handler("ChannelWrongStateError")]
            /\ hist' = [hist EXCEPT ![w].exc = "ChannelWrongStateError", ![w].stage = "basic_ack"]
            /\ UNCHANGED <<unacked, acked>>
    /\ UNCHANGED <<documents, embeddings, queue, inbox, conn, cur, args, vec, dropped,
                   sent, req, responses, crashes, queryVars>>

\* callback, line 78: ch.basic_nack(requeue=True); on a closed channel it
\* raises out of callback and start_worker exits
NackRequeue(w) ==
    /\ pc[w] = "nack_requeue"
    /\ IF conn[w]
       THEN /\ unacked' = [unacked EXCEPT ![w] = Remove(@, cur[w])]
            /\ queue' = Requeue(<<cur[w]>>, queue)
            /\ hist' = [hist EXCEPT ![w].nacks_requeue = @ + 1]
            /\ pc' = [pc EXCEPT ![w] = "return"]
       ELSE /\ pc' = [pc EXCEPT ![w] = "exited"]
            /\ UNCHANGED <<unacked, queue, hist>>
    /\ UNCHANGED <<documents, embeddings, inbox, conn, cur, args, vec, acked, dropped,
                   sent, req, responses, crashes, queryVars>>

\* callback, line 73: ch.basic_nack(requeue=False); the broker discards the
\* message (the queue is declared without a dead-letter exchange)
NackDrop(w) ==
    /\ pc[w] = "nack_drop"
    /\ IF conn[w]
       THEN /\ unacked' = [unacked EXCEPT ![w] = Remove(@, cur[w])]
            /\ dropped' = dropped \cup {cur[w].mid}
            /\ hist' = [hist EXCEPT ![w].nacks_drop = @ + 1]
            /\ pc' = [pc EXCEPT ![w] = "return"]
       ELSE /\ pc' = [pc EXCEPT ![w] = "exited"]
            /\ UNCHANGED <<unacked, dropped, hist>>
    /\ UNCHANGED <<documents, embeddings, queue, inbox, conn, cur, args, vec, acked,
                   sent, req, responses, crashes, queryVars>>

\* callback returns to start_consuming (line 68 and the end of callback); on a
\* lost connection start_consuming raises and start_worker exits
Return(w) ==
    /\ pc[w] = "return"
    /\ pc' = [pc EXCEPT ![w] = IF conn[w] THEN "consuming" ELSE "exited"]
    /\ cur' = [cur EXCEPT ![w] = NoMsg]
    /\ args' = [args EXCEPT ![w] = NoArgs]
    /\ vec' = [vec EXCEPT ![w] = NoVec]
    /\ hist' = [hist EXCEPT ![w] = NoHist]
    /\ UNCHANGED <<documents, embeddings, queue, inbox, unacked, conn, acked, dropped,
                   sent, req, responses, crashes, queryVars>>

\* the connection to the broker is lost: the broker returns the consumer's
\* unacknowledged messages to the queue; a worker blocked in start_consuming
\* gets the exception and exits (start_worker, lines 117-120), a worker inside
\* callback finds out at its next channel operation
ConnectionLost(w) ==
    /\ conn[w]
    /\ pc[w] # "exited"
    /\ crashes < MaxCrashes
    /\ crashes' = crashes + 1
    /\ conn' = [conn EXCEPT ![w] = FALSE]
    /\ queue' = Requeue(unacked[w], queue)
    /\ unacked' = [unacked EXCEPT ![w] = <<>>]
    /\ inbox' = [inbox EXCEPT ![w] = <<>>]
    /\ pc' = [pc EXCEPT ![w] = IF @ = "consuming" THEN "exited" ELSE @]
    /\ UNCHANGED <<documents, embeddings, cur, args, vec, hist, acked, dropped, sent,
                   req, responses, queryVars>>

\* KeyboardInterrupt: not an Exception, so no clause of callback handles it;
\* start_worker exits (lines 114-116) and the broker returns what the
\* consumer had not acknowledged
Interrupt(w) ==
    /\ pc[w] # "exited"
    /\ crashes < MaxCrashes
    /\ crashes' = crashes + 1
    /\ pc' = [pc EXCEPT ![w] = "exited"]
    /\ conn' = [conn EXCEPT ![w] = FALSE]
    /\ queue' = Requeue(unacked[w], queue)
    /\ unacked' = [unacked EXCEPT ![w] = <<>>]
    /\ inbox' = [inbox EXCEPT ![w] = <<>>]
    /\ UNCHANGED <<documents, embeddings, cur, args, vec, hist, acked, dropped, sent,
                   req, responses, queryVars>>

\* the worker process is started again: start_worker, lines 97-113
Restart(w) ==
    /\ pc[w] = "exited"
    /\ pc' = [pc EXCEPT ![w] = "consuming"]
    /\ conn' = [conn EXCEPT ![w] = TRUE]
    /\ cur' = [cur EXCEPT ![w] = NoMsg]
    /\ args' = [args EXCEPT ![w] = NoArgs]
    /\ vec' = [vec EXCEPT ![w] = NoVec]
    /\ hist' = [hist EXCEPT ![w] = NoHist]
    /\ UNCHANGED <<documents, embeddings, queue, inbox, unacked, acked, dropped, sent,
                   req, responses, crashes, queryVars>>

Next ==
    \/ SubmitPipeline
    \/ CreatePublish
    \/ PublishRaw
    \/ \E w \in Workers : Deliver(w)
    \/ \E w \in Workers : Dispatch(w)
    \/ \E w \in Workers : Parse(w)
    \/ \E w \in Workers : GetEmbedding(w)
    \/ \E w \in Workers : SaveEmbedding(w)
    \/ \E w \in Workers : Ack(w)
    \/ \E w \in Workers : NackRequeue(w)
    \/ \E w \in Workers : NackDrop(w)
    \/ \E w \in Workers : Return(w)
    \/ \E w \in Workers : ConnectionLost(w)
    \/ \E w \in Workers : Interrupt(w)
    \/ \E w \in Workers : Restart(w)

Spec == Init /\ [][Next]_vars

\* document submission on its own: create_document requests, no worker
SubmitNext ==
    \/ SubmitAlone
    \/ CreatePublish

SubmitSpec == Init /\ [][SubmitNext]_vars

(***************************************************************************)
(* Query path: endpoints.query_documents, embedding_service.               *)
(* search_similar_documents, llm_service.generate_rag_response,            *)
(* document_service.get_documents_by_ids                                   *)
(***************************************************************************)
QContents == {"The sky is blue.", "Paris is the capital of France."}

\* the content of the document with a given id when a query runs
QContent(id) == IF id % 2 = 1 THEN "The sky is blue." ELSE "Paris is the capital of France."

Min(a, b) == IF a < b THEN a ELSE b

Range(f) == { f[i] : i \in DOMAIN f }

\* the orders in which the elements of S can be listed
Perms(S) == { f \in [1..Cardinality(S) -> S] : \A i, j \in DOMAIN f : i # j => f[i] # f[j] }

Dot(a, b) == a[1] * b[1] + a[2] * b[2]

\* pgvector's <=> on unit vectors: 1 - cos(a, b)
cosine_distance(a, b) == 1 - Dot(a, b)

\* the SELECT's "1 - (e.embedding <=> %s::vector) AS similarity"
similarity(query_embedding, embedding) == 1 - cosine_distance(embedding, query_embedding)

\* ORDER BY similarity ASC
order_by_asc(s1, s2) == s1 <= s2

\* ORDER BY similarity DESC: row with similarity s1 may precede row with s2
order_by(s1, s2) == s1 >= s2

\* LIMIT top_k applied to n rows
limit(n, top_k) == Min(n, top_k)

\* the rows of "embeddings e JOIN documents d ON e.document_id = d.id"
joined == { e \in 1..Len(embeddings) : embeddings[e].document_id \in 1..Len(documents) }

\* the orders the database may return the joined rows in (ties in any order)
search_orders(query_embedding) ==
    { f \in Perms(joined) :
        \A i, j \in DOMAIN f :
            i < j => order_by(similarity(query_embedding, embeddings[f[i]].embedding),
                              similarity(query_embedding, embeddings[f[j]].embedding)) }

\* search_similar_documents: the list of dictionaries built from the rows
search_similar_documents(query_embedding, top_k, f) ==
    [i \in 1..limit(Len(f), top_k) |->
        LET e == embeddings[f[i]]
        IN [id |-> e.document_id,
            content |-> documents[e.document_id].content,
            meta_info |-> documents[e.document_id].meta_info,
            similarity |-> similarity(query_embedding, e.embedding)]]

\* outcomes of the chat-completions call made by generate_rag_response
LlmFaults == {"no_api_key", "status_not_200", "timeout", "unexpected_format",
              "invalid_json", "null_content"}
LlmOutcomes == {"ok"} \cup LlmFaults

ApologyPrefix == "I encountered an issue when generating a response. However, I found relevant information that might help: \n\n"
GenericMessage == "I'm sorry, I encountered an issue while processing your query. Please try again later."
NotEnoughInformation == "I don't have enough information to answer that question."

\* an except clause that quotes the last context instead of the first
llm_fallback_last(context) ==
    IF context # <<>>
    THEN [raised |-> FALSE, value |-> <<ApologyPrefix, context[Len(context)]>>]
    ELSE [raised |-> FALSE, value |-> <<GenericMessage>>]

\* generate_rag_response, the except clause (lines 70-78)
llm_fallback(context) ==
    IF context # <<>>
    THEN [raised |-> FALSE, value |-> <<ApologyPrefix, context[1]>>]
    ELSE [raised |-> FALSE, value |-> <<GenericMessage>>]

\* a generate_rag_response whose except clause re-raises
generate_rag_response_raises(context, outcome) ==
    IF outcome = "ok"
    THEN [raised |-> FALSE, value |-> <<"completion">>]
    ELSE [raised |-> TRUE, value |-> <<>>]

\* generate_rag_response: the try block returns the completion or raises an
\* Exception, which the except clause turns into the fallback answer
generate_rag_response(context, outcome) ==
    IF outcome = "ok"
    THEN [raised |-> FALSE, value |-> <<"completion">>]
    ELSE llm_fallback(context)

\* a short-circuit that answers with the generic failure message
no_results_generic == [status |-> 200, answer |-> <<GenericMessage>>, sources |-> <<>>]

\* query_documents, lines 75-80
no_results_response == [status |-> 200, answer |-> <<NotEnoughInformation>>, sources |-> <<>>]

\* an except clause that answers 200 with the fixed answer
query_error_swallowed == [status |-> 200, answer |-> <<NotEnoughInformation>>, sources |-> <<>>]

\* query_documents, lines 98-104: any exception becomes HTTP 500
query_error_response == [status |-> 500, answer |-> <<>>, sources |-> <<>>]

\* get_documents_by_ids: the ids of the rows "WHERE id IN (document_ids)"
get_documents_by_ids(document_ids) ==
    { d \in 1..Len(documents) : d \in Range(document_ids) }

Source(d) == [id |-> d, content |-> documents[d].content, meta_info |-> documents[d].meta_info]

\* the store contents a query may find: every embedding row references an
\* existing document (foreign key)
QueryInit ==
    /\ PipeIdle
    /\ QueryIdle
    /\ \E n \in 0..MaxQDocs :
         documents = [i \in 1..n |-> [content |-> QContent(i), meta_info |-> "{}"]]
    /\ \E m \in 0..MaxRows :
         embeddings \in [1..m -> [document_id : 1..Len(documents), embedding : Vectors]]

\* a Query arrives: top_k is any integer the request model accepts
QStart ==
    /\ qpc \in {"idle", "done"}
    /\ \E top_k \in (-1)..MaxTopK :
         qreq' = [embedding |-> NoVec, top_k |-> top_k]
    /\ qpc' = "embed"
    /\ similar_docs' = <<>>
    /\ qcalls' = NoCalls
    /\ answer' = <<>>
    /\ qresp' = NoResp
    /\ UNCHANGED <<pipeVars, gen>>

\* line 67: await get_embedding(query.query)
QEmbed ==
    /\ qpc = "embed"
    /\ \/ \E v \in Vectors :
            /\ qreq' = [qreq EXCEPT !.embedding = v]
            /\ qcalls' = [qcalls EXCEPT !.embed = @ + 1, !.embedded = "ok"]
            /\ qpc' = "search"
            /\ UNCHANGED qresp
       \/ \E fault \in EmbeddingFaults :
            /\ qcalls' = [qcalls EXCEPT !.embed = @ + 1, !.embedded = "error"]
            /\ qresp' = query_error_response
            /\ qpc' = "done"
            /\ UNCHANGED qreq
    /\ UNCHANGED <<pipeVars, similar_docs, answer, gen>>

\* lines 71-83: search_similar_documents, then the empty-result short-circuit;
\* the database rejects a negative LIMIT, and may fail for its own reasons
QSearch ==
    /\ qpc = "search"
    /\ \/ /\ qreq.top_k >= 0
          /\ qcalls' = [qcalls EXCEPT !.search = @ + 1, !.searched = "ok"]
          /\ \E f \in search_orders(qreq.embedding) :
               LET docs == search_similar_documents(qreq.embedding, qreq.top_k, f)
               IN /\ similar_docs' = docs
                  /\ IF docs = <<>>
                     THEN qresp' = no_results_response /\ qpc' = "done"
                     ELSE qpc' = "generate" /\ UNCHANGED qresp
       \/ /\ qcalls' = [qcalls EXCEPT !.search = @ + 1, !.searched = "error"]
          /\ qresp' = query_error_response
          /\ qpc' = "done"
          /\ UNCHANGED similar_docs
    /\ UNCHANGED <<pipeVars, qreq, answer, gen>>

\* lines 83-87: contexts, then await generate_rag_response
QGenerate ==
    /\ qpc = "generate"
    /\ qcalls' = [qcalls EXCEPT !.generate = @ + 1]
    /\ \E outcome \in LlmOutcomes :
         LET contexts == [i \in 1..Len(similar_docs) |-> similar_docs[i].content]
             r == generate_rag_response(contexts, outcome)
         IN IF r.raised
            THEN qresp' = query_error_response /\ qpc' = "done" /\ UNCHANGED answer
            ELSE answer' = r.value /\ qpc' = "resolve" /\ UNCHANGED qresp
    /\ UNCHANGED <<pipeVars, qreq, similar_docs, gen>>

\* lines 90-97: get_documents_by_ids and the response; the rows come back in
\* an order the query does not fix
QResolve ==
    /\ qpc = "resolve"
    /\ \/ /\ qcalls' = [qcalls EXCEPT !.resolve = @ + 1, !.resolved = "ok"]
          /\ \E f \in Perms(get_documents_by_ids([i \in 1..Len(similar_docs) |-> similar_docs[i].id])) :
               qresp' = [status |-> 200, answer |-> answer,
                         sources |-> [i \in DOMAIN f |-> Source(f[i])]]
       \/ /\ qcalls' = [qcalls EXCEPT !.resolve = @ + 1, !.resolved = "error"]
          /\ qresp' = query_error_response
    /\ qpc' = "done"
    /\ UNCHANGED <<pipeVars, qreq, similar_docs, answer, gen>>

\* generate_rag_response called on its own with any context list
GenerateCall ==
    /\ qpc = "idle"
    /\ \E n \in 0..MaxContexts :
         \E context \in [1..n -> QContents], outcome \in LlmOutcomes :
            LET r == generate_rag_response(context, outcome)
            IN gen' = [context |-> context, outcome |-> outcome,
                       raised |-> r.raised, value |-> r.value]
    /\ UNCHANGED <<pipeVars, qpc, qreq, similar_docs, qcalls, answer, qresp>>

QueryNext ==
    \/ QStart
    \/ QEmbed
    \/ QSearch
    \/ QGenerate
    \/ QResolve

QuerySpec == QueryInit /\ [][QueryNext]_vars

\* generate_rag_response applied to every context list and upstream outcome
GenerateNext == GenerateCall

GenerateSpec == Init /\ [][GenerateNext]_vars

(***************************************************************************)
(* Properties                                                              *)
(***************************************************************************)
\* the wire shape of section 6: a JSON object with document_id and content
IsMalformed(body) ==
    \/ body.kind # "object"
    \/ ~ ({"document_id", "content"} \subseteq DOMAIN body.fields)

\* the callback for the delivery in cur[w] has issued its ack or nack
Resolved(w) == pc[w] = "return"

InQueue(mid) == \E i \in 1..Len(queue) : queue[i].mid = mid
OutstandingAt(mid) == { w \in Workers : \E i \in 1..Len(unacked[w]) : unacked[w][i].mid = mid }
HasEmbedding(document_id) ==
    \E e \in 1..Len(embeddings) : embeddings[e].document_id = document_id

\* C1: a delivery is acknowledged only if, earlier in the handling of that
\* same delivery, save_embedding committed an embedding row for the event's
\* document_id; no ack is issued when get_embedding or save_embedding failed.
C1_AckOnlyAfterCommit ==
    /\ \A w \in Workers :
         hist[w].acks > 0 =>
            /\ hist[w].save_calls = 1
            /\ hist[w].exc = "none"
            /\ hist[w].row \in 1..Len(embeddings)
            /\ embeddings[hist[w].row].document_id = cur[w].body.fields.document_id
    /\ \A mid \in acked : HasEmbedding(sent[mid].body.fields.document_id)

C1_Witness == \E w \in Workers : Resolved(w) /\ hist[w].acks = 1 /\ cur[w].mid \in acked

\* C2: a malformed body (not JSON, or JSON lacking document_id or content) is
\* negatively acknowledged without requeue, neither the embedding gateway nor
\* the vector store is called, and the message leaves the queue for good.
C2_MalformedDropped ==
    \A w \in Workers :
        (Resolved(w) /\ IsMalformed(cur[w].body)) =>
            /\ hist[w].nacks_drop = 1
            /\ hist[w].nacks_requeue = 0
            /\ hist[w].embed_calls = 0
            /\ hist[w].save_calls = 0
            /\ cur[w].mid \in dropped
            /\ ~ InQueue(cur[w].mid)
            /\ OutstandingAt(cur[w].mid) = {}

\* C3: a delivery of a well-formed event on which get_embedding or
\* save_embedding failed is resolved by a nack with requeue: no ack, no drop,
\* and the same message is back in the queue when the callback has resolved it.
C3_FailureRequeued ==
    [][ \A w \in Workers :
          (/\ pc[w] \in {"nack_requeue", "nack_drop"}
           /\ pc'[w] = "return"
           /\ ~ IsMalformed(cur[w].body)
           /\ hist[w].stage \in {"get_embedding", "save_embedding"}) =>
              /\ hist'[w].nacks_requeue = 1
              /\ hist'[w].acks = 0
              /\ hist'[w].nacks_drop = 0
              /\ cur[w].mid \notin dropped'
              /\ \E i \in 1..Len(queue') : queue'[i].mid = cur[w].mid ]_vars

\* C4: every message handed to the broker is in exactly one condition: visible
\* in the queue, outstanding at exactly one worker, acknowledged with an
\* embedding persisted for its document, or dropped as a poison message.
C4_Conditions(mid) ==
    { c \in {"visible", "outstanding", "acked", "poison"} :
        \/ c = "visible" /\ InQueue(mid)
        \/ c = "outstanding" /\ Cardinality(OutstandingAt(mid)) = 1
        \/ c = "acked" /\ mid \in acked /\ HasEmbedding(sent[mid].body.fields.document_id)
        \/ c = "poison" /\ mid \in dropped /\ IsMalformed(sent[mid].body) }

C4_NoEventLost ==
    \A mid \in 1..Len(sent) : Cardinality(C4_Conditions(mid)) = 1

\* C5: when the record-store commit succeeded, create_document returns the
\* created document (status 200), whatever happens to the queue.
C5_CommittedSubmissionSucceeds ==
    \A i \in 1..Len(responses) :
        responses[i].stage # "commit" => responses[i].status = 200

\* the ingestion events publish_document put on the queue for a document
EventsOf(document_id) ==
    { mid \in 1..Len(sent) :
        /\ sent[mid].by = "publish_document"
        /\ sent[mid].body.fields.document_id = document_id }

\* C6 as stated: after create_document completes, get_document returns the
\* submitted content and metadata, and exactly one event with the document's
\* id, the same content and the same metadata has been published.
C6_EventSameMetadata ==
    \A i \in 1..Len(responses) :
        responses[i].status = 200 =>
            LET r == responses[i]
            IN /\ get_document(r.id).content = r.content
               /\ get_document(r.id).meta_info = r.meta_info
               /\ Cardinality(EventsOf(r.id)) = 1
               /\ \A mid \in EventsOf(r.id) :
                    /\ sent[mid].body.fields.content = r.content
                    /\ sent[mid].body.fields.metadata = r.meta_info

\* C6 (amended): as above, except that the event carries the empty object {}
\* as metadata when the document's metadata is null.
C6_EventMetadataNoneAsEmpty ==
    \A i \in 1..Len(responses) :
        responses[i].status = 200 =>
            LET r == responses[i]
            IN /\ get_document(r.id).content = r.content
               /\ get_document(r.id).meta_info = r.meta_info
               /\ Cardinality(EventsOf(r.id)) = 1
               /\ \A mid \in EventsOf(r.id) :
                    /\ sent[mid].body.fields.content = r.content
                    /\ sent[mid].body.fields.metadata =
                          IF r.meta_info = NoneVal THEN "{}" ELSE r.meta_info

C6_Witness ==
    \E i \in 1..Len(responses) :
        /\ responses[i].status = 200
        /\ responses[i].meta_info = NoneVal
        /\ EventsOf(responses[i].id) # {}

\* C7: when the similarity search returns no result, query_documents answers
\* exactly the fixed "not enough information" answer with no sources, and
\* calls neither generate_rag_response nor get_documents_by_ids.
C7_NoResultsShortCircuit ==
    (qcalls.searched = "ok" /\ similar_docs = <<>>) =>
        /\ qpc = "done"
        /\ qresp = [status |-> 200,
                    answer |-> <<"I don't have enough information to answer that question.">>,
                    sources |-> <<>>]
        /\ qcalls.generate = 0
        /\ qcalls.resolve = 0

C7_Witness ==
    /\ qcalls.searched = "ok"
    /\ similar_docs = <<>>
    /\ qreq.top_k > 0
    /\ qpc = "done"

\* C8: on every upstream failure generate_rag_response does not raise; it
\* returns the apology prefix followed by the first context when there is a
\* context, and the generic cannot-process message when there is none.
C8_GenerateNeverRaises ==
    gen.outcome \in LlmFaults =>
          /\ ~ gen.raised
          /\ gen.value = IF Len(gen.context) > 0
                         THEN <<ApologyPrefix, gen.context[1]>>
                         ELSE <<GenericMessage>>

C8_Witness ==
    /\ gen.outcome \in LlmFaults
    /\ Len(gen.context) = 2
    /\ gen.context[1] # gen.context[2]
    /\ ~ gen.raised

\* C9: a failure of the question-embedding step or of the search step ends
\* the query with HTTP 500, no answer, and no call of generate_rag_response
\* or get_documents_by_ids.
C9_EmbedOrSearchFailureIs500 ==
    (qcalls.embedded = "error" \/ qcalls.searched = "error") =>
        /\ qpc = "done"
        /\ qresp.status = 500
        /\ qresp.answer = <<>>
        /\ qresp.sources = <<>>
        /\ qcalls.generate = 0
        /\ qcalls.resolve = 0

C9_Witness ==
    /\ qcalls.embedded = "ok"
    /\ qcalls.searched = "error"
    /\ embeddings # <<>>
    /\ qpc = "done"

\* similarity of embedding row e to the query of the current request
SimOf(e) == similarity(qreq.embedding, embeddings[e].embedding)

\* C10: for k >= 0 search_similar_documents returns at most k results, in
\* non-increasing order of similarity, no stored embedding left out is
\* strictly more similar than a returned one, and the result is the empty
\* list when the store holds no embeddings.
C10_SearchTopK ==
    qcalls.searched = "ok" =>
        /\ qreq.top_k >= 0
        /\ Len(similar_docs) <= qreq.top_k
        /\ \A i, j \in 1..Len(similar_docs) :
              i < j => similar_docs[i].similarity >= similar_docs[j].similarity
        /\ \A i \in 1..Len(similar_docs) :
              Cardinality({ e \in joined : SimOf(e) > similar_docs[i].similarity })
                 = Cardinality({ j \in 1..Len(similar_docs) :
                                   similar_docs[j].similarity > similar_docs[i].similarity })
        /\ embeddings = <<>> => similar_docs = <<>>

C10_Witness ==
    /\ qcalls.searched = "ok"
    /\ qreq.top_k = 1
    /\ Len(similar_docs) = 1
    /\ \E e \in joined : SimOf(e) < similar_docs[1].similarity

\* the positions of a worker inside callback before its ack or nack was issued
InCallback == {"parse", "embed", "save", "ack", "nack_requeue", "nack_drop"}

\* the number of outcomes (ack, nack with requeue, nack without) callback
\* has issued for the delivery in cur[w]
Outcomes(w) == hist[w].acks + hist[w].nacks_requeue + hist[w].nacks_drop

\* C11: each worker has at most one unacknowledged message in flight: the
\* broker holds at most one outstanding message per worker, and a worker has
\* no further message delivered to it while its callback for the current
\* message has not issued ack or nack, with any number of competing workers.
C11_OneInFlight ==
    \A w \in Workers :
        /\ Len(unacked[w]) <= 1
        /\ Len(inbox[w]) <= 1
        /\ (pc[w] \in InCallback /\ Outcomes(w) = 0) => inbox[w] = <<>>
        /\ (pc[w] \in InCallback /\ conn[w]) => unacked[w] = <<cur[w]>>

C11_Witness ==
    \E w \in Workers :
        /\ pc[w] = "embed"
        /\ unacked[w] = <<cur[w]>>
        /\ queue # <<>>
        /\ inbox[w] = <<>>

EditRow ==
    /\ \E i \in 1..Len(documents), content \in Contents :
          /\ content # documents[i].content
          /\ documents' = [documents EXCEPT ![i].content = content]
    /\ UNCHANGED <<embeddings, queue, inbox, unacked, conn, pc, cur, args, vec, hist,
                   acked, dropped, sent, req, responses, crashes, queryVars>>

EditNext ==
    \/ Next
    \/ EditRow

EditSpec == Init /\ [][EditNext]_vars

(***************************************************************************)
(* Liveness: the pipeline under fair scheduling                            *)
(***************************************************************************)
\* the call to the embeddings endpoint, and the insert, when they succeed
GetEmbeddingOk(w) == GetEmbedding(w) /\ pc'[w] = callback_next("embed")
SaveEmbeddingOk(w) == SaveEmbedding(w) /\ pc'[w] = callback_next("save")

\* the broker keeps delivering, a running worker keeps executing its
\* callback, an exited worker is started again, a request in progress is
\* finished (weak fairness); get_embedding and save_embedding succeed
\* eventually when they are called again and again (strong fairness)
Fairness ==
    /\ WF_vars(CreatePublish)
    /\ \A w \in Workers :
          /\ WF_vars(Deliver(w))
          /\ WF_vars(Dispatch(w))
          /\ WF_vars(Parse(w))
          /\ WF_vars(GetEmbedding(w))
          /\ WF_vars(SaveEmbedding(w))
          /\ WF_vars(Ack(w))
          /\ WF_vars(NackRequeue(w))
          /\ WF_vars(NackDrop(w))
          /\ WF_vars(Return(w))
          /\ WF_vars(Restart(w))
          /\ SF_vars(GetEmbeddingOk(w))
          /\ SF_vars(SaveEmbeddingOk(w))

LiveSpec == Init /\ [][Next]_vars /\ Fairness

\* message mid was handed to the broker and has the wire shape of an event
WellFormedEvent(mid) == mid \in 1..Len(sent) /\ ~ IsMalformed(sent[mid].body)

\* C13: under fair scheduling, with get_embedding and save_embedding
\* succeeding eventually, every well-formed event that was enqueued is
\* eventually acknowledged with an embedding persisted for its document.
C13_EventuallyProcessed ==
    \A mid \in 1..(MaxDocs + MaxRaw) :
        WellFormedEvent(mid) ~>
            (mid \in acked /\ HasEmbedding(sent[mid].body.fields.document_id))

\* C14: when a worker is cancelled while a message is in flight (its process
\* exits from inside callback), no further message is delivered to it and the
\* callback has issued the message's ack or nack before the process exits.
C14_CancelCompletesInFlight ==
    [][ \A w \in Workers :
          (pc[w] \in InCallback /\ pc'[w] = "exited") =>
              /\ hist'[w].acks + hist'[w].nacks_requeue + hist'[w].nacks_drop = 1
              /\ inbox'[w] = <<>> ]_vars

\* C15: when the question embedding and the search succeeded with at least
\* one result, generate_rag_response is called once and, whatever the outcome
\* of the upstream call, the query goes on to the source lookup with an
\* answer string; unless that lookup fails, the query answers 200 with the
\* answer and its sources.
C15_GenerationNeverFailsQuery ==
    (qcalls.embedded = "ok" /\ qcalls.searched = "ok" /\ similar_docs # <<>>) =>
        /\ qpc \in {"generate", "resolve", "done"}
        /\ qpc \in {"resolve", "done"} => (qcalls.generate = 1 /\ answer # <<>>)
        /\ (qpc = "done" /\ qcalls.resolved # "error") =>
              /\ qcalls.resolve = 1
              /\ qresp.status = 200
              /\ qresp.answer = answer
              /\ qresp.sources # <<>>

C15_Witness ==
    /\ qpc = "done"
    /\ qcalls.resolved = "ok"
    /\ qresp.status = 200
    /\ qresp.answer = <<ApologyPrefix, similar_docs[1].content>>
    /\ qresp.sources # <<>>

\* C16: embeddings are only ever inserted: every successful save_embedding
\* run appends exactly one new row for the event's document_id and leaves the
\* existing rows as they are, and the table changes in no other way; so the
\* rows of a document are as many as the successful runs for it, and an event
\* redelivered after its embedding was persisted leaves a second row.
C16_InsertOnly ==
    [][ /\ \A w \in Workers :
              hist'[w].save_calls = hist[w].save_calls + 1 =>
                  /\ Len(embeddings') = Len(embeddings) + 1
                  /\ embeddings'[Len(embeddings')] =
                        [document_id |-> cur[w].body.fields.document_id,
                         embedding |-> vec[w]]
        /\ embeddings' # embeddings =>
              /\ Len(embeddings') = Len(embeddings) + 1
              /\ SubSeq(embeddings', 1, Len(embeddings)) = embeddings
              /\ Cardinality({ w \in Workers :
                                 hist'[w].save_calls = hist[w].save_calls + 1 }) = 1 ]_vars

C16_Witness ==
    /\ Len(embeddings) = 2
    /\ embeddings[1].document_id = embeddings[2].document_id
    /\ Cardinality(EventsOf(embeddings[1].document_id)) = 1
    /\ \E w \in Workers : pc[w] = "return" /\ hist[w].acks = 1 /\ hist[w].row = 2

\* the content carried by the body of the message a worker is handling
EventContent(w) == sent[cur[w].mid].body.fields.content

\* C17: the text the worker passes to get_embedding, and the vector it saves,
\* are those of the content carried in the event's message body as it was
\* enqueued, on every delivery of the event, whatever the content of the
\* document row is by then.
C17_EmbedWhatYouSaw ==
    \A w \in Workers :
        /\ pc[w] \in {"embed", "save", "ack"} => args[w].content = EventContent(w)
        /\ pc[w] \in {"save", "ack"} => vec[w] = embedding_of(EventContent(w))
        /\ (pc[w] = "ack" /\ hist[w].save_calls = 1) =>
              embeddings[hist[w].row].embedding = embedding_of(EventContent(w))

C17_Witness ==
    \E w \in Workers :
        /\ pc[w] = "ack"
        /\ hist[w].save_calls = 1
        /\ documents[args[w].document_id].content # EventContent(w)
        /\ embeddings[hist[w].row].embedding
              # embedding_of(documents[args[w].document_id].content)
        /\ Len(embeddings) = 2

\* C18: for a query with at least one similarity result, the sources returned
\* are the documents whose content was passed to generate_rag_response: one
\* source per context, in the order of the contexts, at most top_k of them.
C18_SourcesAreContexts ==
    (qpc = "done" /\ qcalls.resolved = "ok") =>
        /\ Len(qresp.sources) = Len(similar_docs)
        /\ \A i \in 1..Len(similar_docs) :
              /\ qresp.sources[i].id = similar_docs[i].id
              /\ qresp.sources[i].content = similar_docs[i].content
        /\ Len(qresp.sources) <= qreq.top_k

\* C19: text is never empty in the pipeline: no stored document has empty
\* content, no event published by publish_document carries empty content,
\* and get_embedding is never called through to the embeddings endpoint with
\* an empty text.
C19_TextNonEmpty ==
    /\ \A i \in 1..Len(documents) : documents[i].content # ""
    /\ \A mid \in 1..Len(sent) :
          sent[mid].by = "publish_document" => sent[mid].body.fields.content # ""
    /\ \A w \in Workers : hist[w].embed_calls > 0 => args[w].content # ""

\* calls of basic_ack callback has made for the delivery in cur[w]: the one
\* that took effect, or the one that raised
AckCalls(w) == hist[w].acks + (IF hist[w].stage = "basic_ack" THEN 1 ELSE 0)

\* C20: each delivery handled by callback is resolved exactly once: never two
\* of basic_ack, basic_nack(requeue=True), basic_nack(requeue=False) for the
\* same delivery (no nack is called once basic_ack has been called), and
\* never none when the callback is over.
C20_ResolvedExactlyOnce ==
    \A w \in Workers :
        /\ Outcomes(w) <= 1
        /\ ~ (AckCalls(w) > 0 /\ pc[w] \in {"nack_requeue", "nack_drop"})
        /\ (cur[w] # NoMsg /\ pc[w] \in {"return", "exited"}) => Outcomes(w) = 1

\* the document ids of table documents
DocumentIds == 1..Len(documents)

\* the messages published by publish_document that are in the queue or
\* outstanding at a worker
EventsInFlight ==
    { mid \in 1..Len(sent) :
        /\ sent[mid].by = "publish_document"
        /\ (InQueue(mid) \/ OutstandingAt(mid) # {}) }

\* C21: commit before publish: a create_document request reaches
\* publish_document only with its row committed, so every ingestion event
\* ever published, in particular each one in the queue or in flight at a
\* worker, every event a worker is processing, and every persisted embedding
\* references a document that exists in the record store.
C21_CommitBeforePublish ==
    /\ req.pc = "publish" => req.id \in DocumentIds
    /\ \A mid \in 1..Len(sent) :
          sent[mid].by = "publish_document" =>
              sent[mid].body.fields.document_id \in DocumentIds
    /\ \A mid \in EventsInFlight : sent[mid].body.fields.document_id \in DocumentIds
    /\ \A w \in Workers :
          pc[w] \in {"embed", "save", "ack"} => args[w].document_id \in DocumentIds
    /\ \A e \in 1..Len(embeddings) : embeddings[e].document_id \in DocumentIds

C21_Witness ==
    /\ embeddings # <<>>
    /\ \E w \in Workers :
          /\ pc[w] = "save"
          /\ cur[w].mid \in EventsInFlight
          /\ args[w].document_id = embeddings[1].document_id

====
